---- MODULE Spec2Model ----
(***************************************************************************)
(* A model of kpop's Bubble (src/src/kpop/core.py): a wrapper around a     *)
(* value whose attribute, item and call steps each return a new Bubble,    *)
(* recording every step and latching the first exception.                  *)
(*                                                                         *)
(* Python objects with identity are heap cells: a Bubble is an index into  *)
(* bubbles, a list object is an index into lists, an exception object is   *)
(* numbered by excs.  The wrapped value is arbitrary, so what the native   *)
(* getattr / [] / () does on it is an input: it returns some value or      *)
(* raises some exception.                                                  *)
(***************************************************************************)
EXTENDS Naturals, Sequences, FiniteSets, TLC

VARIABLES
    bubbles,    \* heap of Bubble objects, in order of creation
    lists,      \* heap of list objects: lists[i] is the content of list i
    excs,       \* number of exception objects raised so far
    trace,      \* trace[i]: the call that created bubbles[i] (history variable)
    ret         \* what the last call gave its caller (history variable)

vars == <<bubbles, lists, excs, trace, ret>>

\* ---------------------------------------------------------------- bounds
MaxBubbles == 3
MaxExcs == 2

\* ---------------------------------------------------------------- values
\* Python's None, as a value and as "no exception".
None == "None"
NoExc == [id |-> 0, cls |-> "NoneType"]

Values == {None, "A"}
\* The default argument of k: given, or left out.
Omitted == "<omitted>"
Defaults == {Omitted, "DEF"}
Attrs == {"attr"}
Keys == {"a"}
CallArgs == {[args |-> <<"3">>, kwargs |-> {}]}

\* Exception classes the native operation may raise: RuntimeError derives from
\* Exception, SystemExit derives from BaseException only.
ExcClasses == {"RuntimeError", "SystemExit"}

\* What the native operation on the wrapped value does.
Outcomes ==
    [kind : {"return"}, value : Values, cls : {"NoneType"}]
        \cup [kind : {"raise"}, value : {None}, cls : ExcClasses]

\* The exception object a raising native operation creates.
Raised(out) == [id |-> excs + 1, cls |-> out.cls]

\* ---------------------------------------------------------------- Bubble
Operation(op, detail, result, exception) ==
    [op |-> op, detail |-> detail, result |-> result, exception |-> exception]

from_bubble(value, default, error, history, error_history) ==
    [_value |-> value, _default |-> default, _error |-> error,
     _history |-> history, _error_history |-> error_history]

\* Bug variants of _record, used to test the properties below.
record_always_appends(self, op, detail, result, exception) ==
    LET record == Operation(op, detail, result, exception)
    IN  [heap |-> lists \o <<lists[self._history] \o <<record>>,
                             lists[self._error_history] \o <<record>>>>,
         new_history |-> Len(lists) + 1,
         new_error_history |-> Len(lists) + 2]

record_skips_failing(self, op, detail, result, exception) ==
    LET record == Operation(op, detail, result, exception)
        heap1 == Append(lists, lists[self._history] \o <<record>>)
    IN  IF self._error # NoExc \/ exception # NoExc
        THEN [heap |-> heap1,
              new_history |-> Len(lists) + 1,
              new_error_history |-> self._error_history]
        ELSE [heap |-> Append(heap1, lists[self._error_history] \o <<record>>),
              new_history |-> Len(lists) + 1,
              new_error_history |-> Len(lists) + 2]

record_never_appends(self, op, detail, result, exception) ==
    LET record == Operation(op, detail, result, exception)
    IN  [heap |-> Append(lists, lists[self._history] \o <<record>>),
         new_history |-> Len(lists) + 1,
         new_error_history |-> self._error_history]

record_in_place(self, op, detail, result, exception) ==
    LET record == Operation(op, detail, result, exception)
        heap1 == [lists EXCEPT ![self._history] = Append(@, record)]
    IN  IF self._error # NoExc
        THEN [heap |-> heap1,
              new_history |-> self._history,
              new_error_history |-> self._error_history]
        ELSE [heap |-> [heap1 EXCEPT ![self._error_history] = Append(@, record)],
              new_history |-> self._history,
              new_error_history |-> self._error_history]

record_only_errors(self, op, detail, result, exception) ==
    LET record == Operation(op, detail, result, exception)
        heap1 == Append(lists, lists[self._history] \o <<record>>)
    IN  IF exception = NoExc
        THEN [heap |-> heap1,
              new_history |-> Len(lists) + 1,
              new_error_history |-> self._error_history]
        ELSE [heap |-> Append(heap1, lists[self._error_history] \o <<record>>),
              new_history |-> Len(lists) + 1,
              new_error_history |-> Len(lists) + 2]

\* Bubble._record: `self._history + [record]` builds a new list object; the
\* error history is a new list object only while no error is recorded, else
\* it is the receiver's own list object.
_record(self, op, detail, result, exception) ==
    LET record == Operation(op, detail, result, exception)
        new_history == Len(lists) + 1
        heap1 == Append(lists, lists[self._history] \o <<record>>)
    IN  IF self._error # NoExc
        THEN [heap |-> heap1,
              new_history |-> new_history,
              new_error_history |-> self._error_history]
        ELSE [heap |-> Append(heap1, lists[self._error_history] \o <<record>>),
              new_history |-> new_history,
              new_error_history |-> new_history + 1]

\* Bug variant: a narrower except clause.
except_KeyError(exc) == exc.cls = "KeyError"

\* `except Exception`: the clause matches instances of Exception only.
except_Exception(exc) == exc.cls = "RuntimeError"

\* The result of a method: the bubble it returns (or the exception that
\* escapes it), and the heap of lists after it.
Returns(bubble, heap) ==
    [raised |-> NoExc, bubble |-> bubble, heap |-> heap, native |-> 0]
Escapes(exc) ==
    [raised |-> exc, bubble |-> from_bubble(None, None, NoExc, 0, 0),
     heap |-> lists, native |-> 0]

\* The method performed the native operation (getattr(self._value, attr),
\* self._value[key], self._value(*args, **kwargs)) once on the way to `res`.
Attempted(res) == [res EXCEPT !.native = 1]

\* Bug variant: the skipped step's record carries no exception.
getattr_failed_no_exception(self, attr) ==
    LET r == _record(self, "getattr", attr, None, NoExc)
    IN  Returns(from_bubble(None, self._default, self._error,
                            r.new_history, r.new_error_history), r.heap)

\* Bug variant: the skipped step's record carries the default as its result.
getitem_failed_records_default(self, key) ==
    LET r == _record(self, "getitem", key, self._default, self._error)
    IN  Returns(from_bubble(None, self._default, self._error,
                            r.new_history, r.new_error_history), r.heap)

\* Bug variant: the skipped step returns a bubble without the error.
call_failed_clears_error(self, argv) ==
    LET r == _record(self, "call", argv, None, self._error)
    IN  Returns(from_bubble(None, self._default, NoExc,
                            r.new_history, r.new_error_history), r.heap)

\* getattr, lines 79-89: the receiver already carries an error.
getattr_failed(self, attr) ==
    LET r == _record(self, "getattr", attr, None, self._error)
    IN  Returns(from_bubble(None, self._default, self._error,
                            r.new_history, r.new_error_history), r.heap)

\* Bug variant: the failing step's bubble keeps the receiver's value.
getattr_try_keeps_value(self, attr, out) ==
    Attempted(
        IF out.kind = "return"
        THEN LET result == out.value
                 r == _record(self, "getattr", attr, result, NoExc)
             IN  Returns(from_bubble(result, self._default, NoExc,
                                     r.new_history, r.new_error_history), r.heap)
        ELSE IF except_Exception(Raised(out))
        THEN LET exc == Raised(out)
                 r == _record(self, "getattr", attr, None, exc)
             IN  Returns(from_bubble(self._value, self._default, exc,
                                     r.new_history, r.new_error_history), r.heap)
        ELSE Escapes(Raised(out)))

\* getattr, lines 91-110: the native operation is attempted.
getattr_try(self, attr, out) ==
    Attempted(
        IF out.kind = "return"
        THEN LET result == out.value
                 r == _record(self, "getattr", attr, result, NoExc)
             IN  Returns(from_bubble(result, self._default, NoExc,
                                     r.new_history, r.new_error_history), r.heap)
        ELSE IF except_Exception(Raised(out))
        THEN LET exc == Raised(out)
                 r == _record(self, "getattr", attr, None, exc)
             IN  Returns(from_bubble(None, self._default, exc,
                                     r.new_history, r.new_error_history), r.heap)
        ELSE Escapes(Raised(out)))

__getattr__(self, attr, out) ==
    IF self._error # NoExc
    THEN getattr_failed(self, attr)
    ELSE getattr_try(self, attr, out)

\* Bug variant: the item read is made on the stale value before the early
\* return.
getitem_failed_attempts(self, key) ==
    LET r == _record(self, "getitem", key, None, self._error)
    IN  Attempted(Returns(from_bubble(None, self._default, self._error,
                                      r.new_history, r.new_error_history), r.heap))

\* getitem, lines 113-123: the receiver already carries an error.
getitem_failed(self, key) ==
    LET r == _record(self, "getitem", key, None, self._error)
    IN  Returns(from_bubble(None, self._default, self._error,
                            r.new_history, r.new_error_history), r.heap)

\* Bug variant: a copied method still records "getattr".
getitem_try_as_getattr(self, key, out) ==
    Attempted(
        IF out.kind = "return"
        THEN LET result == out.value
                 r == _record(self, "getattr", key, result, NoExc)
             IN  Returns(from_bubble(result, self._default, NoExc,
                                     r.new_history, r.new_error_history), r.heap)
        ELSE IF except_Exception(Raised(out))
        THEN LET exc == Raised(out)
                 r == _record(self, "getattr", key, None, exc)
             IN  Returns(from_bubble(None, self._default, exc,
                                     r.new_history, r.new_error_history), r.heap)
        ELSE Escapes(Raised(out)))

\* getitem, lines 125-144: the native operation is attempted.
getitem_try(self, key, out) ==
    Attempted(
        IF out.kind = "return"
        THEN LET result == out.value
                 r == _record(self, "getitem", key, result, NoExc)
             IN  Returns(from_bubble(result, self._default, NoExc,
                                     r.new_history, r.new_error_history), r.heap)
        ELSE IF except_Exception(Raised(out))
        THEN LET exc == Raised(out)
                 r == _record(self, "getitem", key, None, exc)
             IN  Returns(from_bubble(None, self._default, exc,
                                     r.new_history, r.new_error_history), r.heap)
        ELSE Escapes(Raised(out)))

__getitem__(self, key, out) ==
    IF self._error # NoExc
    THEN getitem_failed(self, key)
    ELSE getitem_try(self, key, out)

\* Bug variant: the skipped step's record carries a marker of its own.
call_failed_skipped_marker(self, argv) ==
    LET r == _record(self, "call", argv, None, [id |-> excs + 1, cls |-> "Skipped"])
    IN  Returns(from_bubble(None, self._default, self._error,
                            r.new_history, r.new_error_history), r.heap)

\* call, lines 147-157: the receiver already carries an error.
call_failed(self, argv) ==
    LET r == _record(self, "call", argv, None, self._error)
    IN  Returns(from_bubble(None, self._default, self._error,
                            r.new_history, r.new_error_history), r.heap)

\* Bug variant: a successful call returns `Bubble(result)`, without the default.
call_try_loses_default(self, argv, out) ==
    Attempted(
        IF out.kind = "return"
        THEN LET result == out.value
                 r == _record(self, "call", argv, result, NoExc)
             IN  Returns(from_bubble(result, None, NoExc,
                                     r.new_history, r.new_error_history), r.heap)
        ELSE IF except_Exception(Raised(out))
        THEN LET exc == Raised(out)
                 r == _record(self, "call", argv, None, exc)
             IN  Returns(from_bubble(None, self._default, exc,
                                     r.new_history, r.new_error_history), r.heap)
        ELSE Escapes(Raised(out)))

\* call, lines 159-182: the native operation is attempted.
call_try(self, argv, out) ==
    Attempted(
        IF out.kind = "return"
        THEN LET result == out.value
                 r == _record(self, "call", argv, result, NoExc)
             IN  Returns(from_bubble(result, self._default, NoExc,
                                     r.new_history, r.new_error_history), r.heap)
        ELSE IF except_Exception(Raised(out))
        THEN LET exc == Raised(out)
                 r == _record(self, "call", argv, None, exc)
             IN  Returns(from_bubble(None, self._default, exc,
                                     r.new_history, r.new_error_history), r.heap)
        ELSE Escapes(Raised(out)))

__call__(self, argv, out) ==
    IF self._error # NoExc
    THEN call_failed(self, argv)
    ELSE call_try(self, argv, out)

\* Bug variant: `self._value or self._default`.
kpop_falsy(self) ==
    IF self._error = NoExc /\ self._value # None THEN self._value ELSE self._default

kpop(self) == IF self._error = NoExc THEN self._value ELSE self._default

\* Bug variant: extraction "pops" the bubble, clearing the recorded error.
kpop_clears_error(self) == [self EXCEPT !._error = NoExc]

\* The receiver after kpop: the method assigns nothing.
kpop_receiver(self) == self

\* ---------------------------------------------------------------- state
\* The receiver as the caller can observe it: its fields and the contents of
\* its two lists.
View(b) ==
    [_value |-> bubbles[b]._value, _default |-> bubbles[b]._default,
     _error |-> bubbles[b]._error,
     history |-> lists[bubbles[b]._history],
     error_history |-> lists[bubbles[b]._error_history]]

NoView == [_value |-> None, _default |-> None, _error |-> NoExc,
           history |-> <<>>, error_history |-> <<>>]

NoOutcome == [kind |-> "none", value |-> None, cls |-> "NoneType"]

\* Bug variant: a value of None is replaced by the default.
init_none_becomes_default(heap, value, default) ==
    [bubble |-> from_bubble(IF value = None THEN default ELSE value, default,
                            NoExc, Len(heap) + 1, Len(heap) + 2),
     heap |-> heap \o <<(<<>>), (<<>>)>>]

\* Bubble.__init__(value, default), the lists allocated so far being `heap`:
\* a healthy bubble with two fresh empty lists.
__init__(heap, value, default) ==
    [bubble |-> from_bubble(value, default, NoExc, Len(heap) + 1, Len(heap) + 2),
     heap |-> heap \o <<(<<>>), (<<>>)>>]

\* k(value, default) wraps the value: the chain starts here.
\* `default=None`: a default that is left out is None.
k(heap, value, default) ==
    __init__(heap, value, IF default = Omitted THEN None ELSE default)

\* The state after k(value, default), for every value and default.
Init ==
    \E value \in Values, default \in Defaults :
        /\ lists = k(<<>>, value, default).heap
        /\ bubbles = <<k(<<>>, value, default).bubble>>
        /\ excs = 0
        /\ trace = <<[api |-> "k", self |-> 0, detail |-> None, out |-> NoOutcome,
                      exc |-> NoExc, pre |-> NoView, native |-> 0,
                      value |-> value, given |-> default,
                      default |-> IF default = "<omitted>" THEN "None" ELSE default]>>
        /\ ret = [api |-> "k", self |-> 0, detail |-> None, bubble |-> 1,
                  value |-> None, raised |-> NoExc, native |-> 0]

\* The state after a step `api` on bubble b with the given detail, the native
\* operation doing `out`, the method giving `res`.  A native operation that
\* raises creates one exception object.
Step(api, b, detail, out, res) ==
    /\ Len(bubbles) < MaxBubbles
    /\ out.kind = "raise" => excs < MaxExcs
    /\ excs' = IF out.kind = "raise" THEN excs + 1 ELSE excs
    /\ IF res.raised = NoExc
       THEN /\ lists' = res.heap
            /\ bubbles' = Append(bubbles, res.bubble)
            /\ trace' = Append(trace,
                  [api |-> api, self |-> b, detail |-> detail, out |-> out,
                   exc |-> IF out.kind = "raise" THEN Raised(out) ELSE NoExc,
                   pre |-> View(b), native |-> res.native,
                   value |-> None, given |-> None, default |-> None])
            /\ ret' = [api |-> api, self |-> b, detail |-> detail,
                       bubble |-> Len(bubbles) + 1,
                       value |-> None, raised |-> NoExc, native |-> res.native]
       ELSE /\ UNCHANGED <<lists, bubbles, trace>>
            /\ ret' = [api |-> api, self |-> b, detail |-> detail, bubble |-> 0,
                       value |-> None, raised |-> res.raised,
                       native |-> res.native]

GetAttr(b, attr, out) ==
    Step("getattr", b, attr, out, __getattr__(bubbles[b], attr, out))

GetItem(b, key, out) ==
    Step("getitem", b, key, out, __getitem__(bubbles[b], key, out))

Call(b, argv, out) ==
    Step("call", b, argv, out, __call__(bubbles[b], argv, out))

\* kpop(bubble): the final extraction.
Kpop(b) ==
    /\ ret' = [api |-> "kpop", self |-> b, detail |-> None, bubble |-> 0,
               value |-> kpop(bubbles[b]), raised |-> NoExc, native |-> 0]
    /\ bubbles' = [bubbles EXCEPT ![b] = kpop_receiver(bubbles[b])]
    /\ UNCHANGED <<lists, excs, trace>>

\* On a failed bubble the native operation is not attempted, so there is no
\* outcome to choose.
OutcomesFor(b) == IF bubbles[b]._error = NoExc THEN Outcomes ELSE {NoOutcome}

Next ==
    \/ \E b \in DOMAIN bubbles : \E attr \in Attrs, out \in OutcomesFor(b) : GetAttr(b, attr, out)
    \/ \E b \in DOMAIN bubbles : \E key \in Keys, out \in OutcomesFor(b) : GetItem(b, key, out)
    \/ \E b \in DOMAIN bubbles : \E argv \in CallArgs, out \in OutcomesFor(b) : Call(b, argv, out)
    \/ \E b \in DOMAIN bubbles : Kpop(b)

Spec == Init /\ [][Next]_vars

\* ---------------------------------------------------------------- lookup
\* The names class Bubble defines: its slots and its methods.
BubbleNames ==
    {"_value", "_error", "_default", "_history", "_error_history",
     "from_bubble", "_record", "kpop", "_get_history", "_get_error_history",
     "_debug"}

\* The names a caller reads on a bubble: names of the wrapped value's
\* attributes, and names the class defines too.
ReadNames == Attrs \cup {"kpop", "_value"}

\* Bug variant: every name goes to __getattr__ (as under __getattribute__).
defines_nothing(name) == FALSE

\* Normal attribute lookup finds the name on the bubble: Python calls
\* __getattr__ only when it does not.
BubbleDefines(name) == name \in BubbleNames

\* What normal lookup gives for a name the class defines: the slot's value,
\* or the bound method.
Member(self, name) ==
    IF name = "_value" THEN self._value
    ELSE IF name = "_default" THEN self._default
    ELSE "<bound method>"

\* The attribute read `bubble.name`.
ReadAttr(b, name, out) ==
    IF BubbleDefines(name)
    THEN /\ ret' = [api |-> "member", self |-> b, detail |-> name, bubble |-> 0,
                    value |-> Member(bubbles[b], name), raised |-> NoExc,
                    native |-> 0]
         /\ UNCHANGED <<bubbles, lists, excs, trace>>
    ELSE GetAttr(b, name, out)

\* The native attribute read is attempted only for a name that reaches
\* __getattr__ on a healthy bubble.
LookupOutcomes(b, name) == IF BubbleDefines(name) THEN {NoOutcome} ELSE OutcomesFor(b)

NextLookup ==
    \/ \E b \in DOMAIN bubbles : \E name \in ReadNames : \E out \in LookupOutcomes(b, name) : ReadAttr(b, name, out)
    \/ \E b \in DOMAIN bubbles : \E key \in Keys, out \in OutcomesFor(b) : GetItem(b, key, out)
    \/ \E b \in DOMAIN bubbles : \E argv \in CallArgs, out \in OutcomesFor(b) : Call(b, argv, out)

\* Chains whose attribute reads go through normal lookup first.
SpecLookup == Init /\ [][NextLookup]_vars

\* ---------------------------------------------------------------- chains
\* The bubbles made by steps (all but the one k made).
Children == {c \in DOMAIN bubbles : trace[c].self # 0}

\* The chain of bubble b: the bubbles from the one k made down to b.
RECURSIVE Path(_)
Path(b) == IF trace[b].self = 0 THEN <<b>> ELSE Append(Path(trace[b].self), b)

OnPath(b) == {Path(b)[i] : i \in DOMAIN Path(b)}

\* The content of the two lists of bubble b.
History(b) == lists[bubbles[b]._history]
ErrorHistory(b) == lists[bubbles[b]._error_history]

Last(s) == s[Len(s)]
Front(s) == SubSeq(s, 1, Len(s) - 1)

\* Steps by what happened in them: the native operation returned, the native
\* operation raised and the exception was caught, the receiver had failed.
Succeeded == {c \in Children : trace[c].out.kind = "return"}
Failing == {c \in Children : trace[c].out.kind = "raise"}
Skipped == {c \in Children : trace[c].pre._error # NoExc}

\* ---------------------------------------------------------------- C1
\* C1: kpop returns the bubble's current value when it records no error, None
\* included, and otherwise the default that was given to k at the start of
\* the chain.
C1_KpopValueOrDefault ==
    ret.api = "kpop" =>
        LET self == bubbles[ret.self]
            root == Path(ret.self)[1]
        IN  /\ self._error = NoExc => ret.value = self._value
            /\ self._error # NoExc => ret.value = self._default
            /\ self._error # NoExc => ret.value = trace[root].default
            /\ (Failing \cap OnPath(ret.self) = {}) => ret.value =
                  IF ret.self = root THEN trace[root].value
                  ELSE trace[ret.self].out.value

\* A failed bubble two steps down a chain gave the default, which differs
\* from None.
C1_Witness ==
    /\ ret.api = "kpop"
    /\ ret.self \in Skipped
    /\ ret.value = "DEF"

\* ---------------------------------------------------------------- C2
\* C2: once a step has failed, every bubble further down the chain carries
\* the very exception object that step caught, and a step on a bubble with an
\* error never returns a bubble without one.
C2_FailureLatched ==
    /\ \A b \in DOMAIN bubbles : \A f \in Failing \cap OnPath(b) :
          bubbles[b]._error = trace[f].exc
    /\ \A c \in Skipped :
          /\ bubbles[c]._error # NoExc
          /\ bubbles[c]._error = trace[c].pre._error

\* A step was made on a failed bubble after a second exception object had
\* been raised elsewhere, and the bubble it returned has the first one.
C2_Witness ==
    \E c \in Skipped :
        /\ trace[c].api = "call"
        /\ excs >= 2
        /\ bubbles[c]._error.id = 1

C4_SkippedStepHistories ==
    \A c \in Skipped :
        /\ Len(History(c)) = Len(trace[c].pre.history) + 1
        /\ Front(History(c)) = trace[c].pre.history
        /\ ErrorHistory(c) = trace[c].pre.error_history

\* A step on a failed bubble whose error history was not empty.
C4_Witness ==
    \E c \in Skipped :
        /\ Len(trace[c].pre.error_history) >= 1
        /\ Len(History(c)) = Len(ErrorHistory(c)) + 1

\* ---------------------------------------------------------------- C5
\* C5: a failing step on a healthy bubble appends one record, with no result
\* and the exception just caught, to the history and to the error history;
\* after k successful steps and one failing step both have length k + 1.
C5_FailingStepRecorded ==
    \A c \in Failing :
        LET record == Operation(trace[c].api, trace[c].detail, None, trace[c].exc)
        IN  /\ History(c) = Append(trace[c].pre.history, record)
            /\ ErrorHistory(c) = Append(trace[c].pre.error_history, record)
            /\ Last(ErrorHistory(c)).exception = bubbles[c]._error
            /\ Len(History(c)) = Len(Path(c)) - 1
            /\ Len(ErrorHistory(c)) = Len(Path(c)) - 1

\* A failing item read after one successful step: both histories have two
\* records.
C5_Witness ==
    \E c \in Failing :
        /\ trace[c].api = "getitem"
        /\ trace[c].self \in Succeeded
        /\ Len(ErrorHistory(c)) = 2

\* ---------------------------------------------------------------- C6
\* C6: a successful step on a healthy bubble returns a healthy bubble whose
\* history and error history are equally long, each one longer than the
\* receiver's, and end with the same record: the step's result, no exception.
C6_SuccessfulStepRecorded ==
    \A c \in Succeeded :
        /\ trace[c].pre._error = NoExc
        /\ bubbles[c]._error = NoExc
        /\ Len(History(c)) = Len(ErrorHistory(c))
        /\ Len(History(c)) = Len(trace[c].pre.history) + 1
        /\ Len(ErrorHistory(c)) = Len(trace[c].pre.error_history) + 1
        /\ Last(History(c)) = Last(ErrorHistory(c))
        /\ Last(History(c)) =
              Operation(trace[c].api, trace[c].detail, trace[c].out.value, NoExc)

\* A second successful step in a row, a call that returned "A".
C6_Witness ==
    \E c \in Succeeded :
        /\ trace[c].self \in Succeeded
        /\ trace[c].api = "call"
        /\ Last(ErrorHistory(c)).result = "A"
        /\ Len(ErrorHistory(c)) = 2

\* ---------------------------------------------------------------- C7
\* C7: the record a step appends on a bubble that carries an error has the
\* step's kind and detail, no result, and the receiver's error object as its
\* exception.
C7_SkippedRecordInheritsError ==
    \A c \in Skipped :
        /\ Last(History(c)) =
              Operation(trace[c].api, trace[c].detail, None, trace[c].pre._error)
        /\ Last(History(c)).exception.id # 0
        /\ \A f \in Failing \cap OnPath(c) :
              Last(History(c)).exception = trace[f].exc

\* An attribute read on a failed bubble, after another exception object had
\* been raised: the record has the first one.
C7_Witness ==
    \E c \in Skipped :
        /\ trace[c].api = "getattr"
        /\ trace[c].detail = "attr"
        /\ excs >= 2
        /\ Last(History(c)).exception.id = 1

\* ---------------------------------------------------------------- C8
\* The records of every list allocated so far.
Records == UNION {{lists[l][i] : i \in DOMAIN lists[l]} : l \in DOMAIN lists}

\* C8 as claimed: every record has exactly one of result and exception.
C8_ExactlyOnePresent ==
    \A r \in Records : (r.result # None) # (r.exception # NoExc)

\* C8 as amended: no record has both a result and an exception; the record of
\* a step has an exception exactly when the step failed or came after a
\* failure, and it has neither exactly when the step succeeded and the native
\* operation returned None.
C8_AtMostOnePresent ==
    /\ \A r \in Records : ~(r.result # None /\ r.exception # NoExc)
    /\ \A c \in Children :
          LET r == Last(History(c))
          IN  /\ r.exception # NoExc <=> c \in Failing \cup Skipped
              /\ (r.result = None /\ r.exception = NoExc) <=>
                    (c \in Succeeded /\ trace[c].out.value = None)

\* A history holds a record with neither (a step that returned None)
\* followed by a record with an exception and no result.
C8_Witness ==
    \E c \in Failing :
        /\ trace[c].self \in Succeeded
        /\ History(c)[1].result = None /\ History(c)[1].exception = NoExc
        /\ History(c)[2].result = None /\ History(c)[2].exception # NoExc

\* ---------------------------------------------------------------- C9
\* C9: a step leaves its receiver as it was: the receiver's value, default,
\* error and the content of its two lists are, after the step and after all
\* later steps, what they were when the step was made; so two children of
\* one bubble each hold the receiver's history plus their own record.
C9_ReceiverUnchanged ==
    /\ \A c \in Children : View(trace[c].self) = trace[c].pre
    /\ \A c \in Children :
          /\ Front(History(c)) = History(trace[c].self)
          /\ Last(History(c)).op = trace[c].api
          /\ Last(History(c)).detail = trace[c].detail

\* Two different steps were made on the same bubble.
C9_Witness ==
    \E c1, c2 \in Children :
        /\ c1 # c2
        /\ trace[c1].self = trace[c2].self
        /\ trace[c1].api = "getattr"
        /\ trace[c2].api = "getitem"
        /\ Last(History(c1)) # Last(History(c2))
        /\ Len(History(trace[c1].self)) = 0

\* ---------------------------------------------------------------- C10
\* C10 as claimed: the bubble a step returns shares no list object with the
\* receiver: neither of its lists is the receiver's history list or error
\* history list.
C10_NoSharedList ==
    \A c \in Children :
        {bubbles[c]._history, bubbles[c]._error_history}
            \cap {bubbles[trace[c].self]._history,
                  bubbles[trace[c].self]._error_history} = {}

\* ---------------------------------------------------------------- C11
\* C11: every bubble of a chain carries the default that was passed to k at
\* the start of the chain, and None when none was passed.
C11_DefaultFixed ==
    \A b \in DOMAIN bubbles :
        LET given == trace[Path(b)[1]].given
        IN  bubbles[b]._default = IF given = "<omitted>" THEN "None" ELSE given

\* A chain started with a default of "DEF" has a successful call followed by
\* a failing step, and the last bubble still carries "DEF".
C11_Witness ==
    \E c \in Failing :
        /\ trace[c].self \in Succeeded
        /\ trace[trace[c].self].api = "call"
        /\ trace[Path(c)[1]].given = "DEF"
        /\ bubbles[c]._default = "DEF"

\* ---------------------------------------------------------------- C12
\* C12 as claimed: reading an attribute of a bubble, whatever its name,
\* returns a new bubble whose history is the receiver's plus one "getattr"
\* record with that name as detail.
C12_EveryNameIntercepted ==
    (ret.api \in {"getattr", "member"} /\ ret.raised = NoExc) =>
        /\ ret.bubble # 0
        /\ Len(History(ret.bubble)) = Len(History(ret.self)) + 1
        /\ Last(History(ret.bubble)).op = "getattr"
        /\ Last(History(ret.bubble)).detail = ret.detail

\* C12 as amended: reading a name that normal lookup does not find on the
\* bubble returns a new bubble with one more "getattr" record of that name,
\* the read being made on the wrapped value when the receiver is healthy;
\* reading a name that class Bubble defines gives the bubble's own member,
\* returns no new bubble and records nothing.
C12_UndefinedNamesIntercepted ==
    /\ (ret.api = "getattr" /\ ret.raised = NoExc) =>
          /\ ret.detail = "attr"
          /\ ret.bubble = Len(bubbles)
          /\ History(ret.bubble) =
                Append(trace[ret.bubble].pre.history, Last(History(ret.bubble)))
          /\ Last(History(ret.bubble)).op = "getattr"
          /\ Last(History(ret.bubble)).detail = ret.detail
          /\ trace[ret.bubble].pre._error = NoExc => ret.native = 1
    /\ ret.api = "member" =>
          /\ ret.detail \in {"kpop", "_value"}
          /\ ret.bubble = 0
          /\ ret.detail = "_value" => ret.value = bubbles[ret.self]._value
          /\ ret.detail = "kpop" => ret.value = "<bound method>"
    /\ \A c \in Children : trace[c].api = "getattr" => trace[c].detail = "attr"

\* After an intercepted read of "attr" made a second bubble, reading "kpop"
\* on it gave the bound method and no third bubble.
C12_Witness ==
    /\ ret.api = "member"
    /\ ret.detail = "kpop"
    /\ ret.self \in Children
    /\ trace[ret.self].api = "getattr"
    /\ Len(bubbles) = 2

\* ---------------------------------------------------------------- C13
\* C13: kpop changes nothing: a call of kpop leaves every bubble, every list
\* and the record of steps as they were (it is not recorded as a step), and
\* a call right after another on the same bubble returns the same value.
C13_KpopPure ==
    [][ret'.api = "kpop" =>
          /\ bubbles' = bubbles
          /\ lists' = lists
          /\ trace' = trace
          /\ excs' = excs
          /\ (ret.api = "kpop" /\ ret.self = ret'.self) => ret'.value = ret.value
          /\ ret'.value = IF bubbles[ret'.self]._error = NoExc
                            THEN bubbles[ret'.self]._value
                            ELSE bubbles[ret'.self]._default]_vars

\* kpop gave the default for a failed bubble that had already been the
\* receiver of a further step; its history still has one record.
C13_Witness ==
    /\ ret.api = "kpop"
    /\ ret.self \in Failing
    /\ ret.value = bubbles[ret.self]._default
    /\ \E c \in Skipped : trace[c].self = ret.self
    /\ Len(History(ret.self)) = 1

\* ---------------------------------------------------------------- C14
\* C14: the bubble k(value, default) returns has that value, that default
\* (None when left out), no error and two empty histories, so kpop on it
\* returns the value, for every value and default.
C14_EntryBubble ==
    \A r \in DOMAIN bubbles : trace[r].api = "k" =>
        /\ bubbles[r]._value = trace[r].value
        /\ bubbles[r]._default =
              IF trace[r].given = "<omitted>" THEN "None" ELSE trace[r].given
        /\ bubbles[r]._error = NoExc
        /\ History(r) = <<>>
        /\ ErrorHistory(r) = <<>>
        /\ (ret.api = "kpop" /\ ret.self = r) => ret.value = trace[r].value

\* kpop on k(None, "DEF") gave None.
C14_Witness ==
    /\ ret.api = "kpop"
    /\ trace[ret.self].api = "k"
    /\ trace[ret.self].value = "None"
    /\ trace[ret.self].given = "DEF"
    /\ ret.value = "None"

\* ---------------------------------------------------------------- C15
\* The native operations performed by the steps of the chain of bubble b.
RECURSIVE NativeOps(_)
NativeOps(b) ==
    IF trace[b].self = 0 THEN 0 ELSE NativeOps(trace[b].self) + trace[b].native

\* The steps of the chain of bubble b up to and including the first failing
\* one; all of them when none failed.
StepsToFirstFailure(b) ==
    LET p == Path(b)
        failing == {i \in DOMAIN p : p[i] \in Failing}
    IN  IF failing = {} THEN Len(p) - 1
        ELSE (CHOOSE i \in failing : \A j \in failing : i <= j) - 1

\* C15: a step on a bubble that carries an error performs no native
\* operation, so the native operations performed along a chain are as many
\* as its steps up to and including the first failing one.
C15_NoNativeOperationAfterFailure ==
    /\ \A c \in Skipped : trace[c].native = 0
    /\ \A c \in Children \ Skipped : trace[c].native = 1
    /\ (ret.api \in {"getattr", "getitem", "call"}
            /\ bubbles[ret.self]._error # NoExc) => ret.native = 0
    /\ \A b \in DOMAIN bubbles : NativeOps(b) = StepsToFirstFailure(b)

\* An item read on a failed bubble: the chain has two steps and made one
\* native operation.
C15_Witness ==
    \E c \in Skipped :
        /\ trace[c].api = "getitem"
        /\ Len(Path(c)) = 3
        /\ NativeOps(c) = 1
        /\ ret.bubble = c /\ ret.native = 0

\* ---------------------------------------------------------------- C16
\* C16: the error history of every bubble is a prefix of its history; it
\* holds the records of the steps up to and including the first failing one
\* and no more, while the history holds one record for every step.
C16_ErrorHistoryPrefix ==
    \A b \in DOMAIN bubbles :
        /\ Len(ErrorHistory(b)) <= Len(History(b))
        /\ ErrorHistory(b) = SubSeq(History(b), 1, Len(ErrorHistory(b)))
        /\ Len(ErrorHistory(b)) = StepsToFirstFailure(b)
        /\ Len(History(b)) = Len(Path(b)) - 1

\* The first step of a chain failed and another step followed: one record
\* in the error history, two in the history.
C16_Witness ==
    \E c \in Skipped :
        /\ trace[c].self \in Failing
        /\ Len(ErrorHistory(c)) = 1
        /\ Len(History(c)) = 2
        /\ ErrorHistory(c)[1] = History(c)[1]

\* ---------------------------------------------------------------- C17
\* C17: in every bubble that carries no error the error history equals the
\* history, record for record.
C17_HealthyHistoriesEqual ==
    \A b \in DOMAIN bubbles :
        bubbles[b]._error = NoExc => ErrorHistory(b) = History(b)

\* A healthy bubble after two successful steps whose results differ.
C17_Witness ==
    \E c \in Succeeded :
        /\ trace[c].self \in Succeeded
        /\ bubbles[c]._error = NoExc
        /\ Len(ErrorHistory(c)) = 2
        /\ History(c)[1].result # History(c)[2].result

\* ---------------------------------------------------------------- C18
\* C18: after n steps the history has n records, the i-th with the kind and
\* the detail of the i-th step of the chain: "getattr" and the attribute
\* name, "getitem" and the key, "call" and the arguments.
C18_HistoryFollowsSteps ==
    \A b \in DOMAIN bubbles :
        /\ Len(History(b)) = Len(Path(b)) - 1
        /\ \A i \in DOMAIN History(b) :
              LET record == History(b)[i]
                  step == trace[Path(b)[i + 1]]
              IN  /\ record.op = step.api
                  /\ record.op \in {"getattr", "getitem", "call"}
                  /\ record.op = "getattr" => record.detail \in Attrs
                  /\ record.op = "getitem" => record.detail \in Keys
                  /\ record.op = "call" => record.detail \in CallArgs
                  /\ record.detail = step.detail

\* A call that failed followed by an item read: two records, in that order.
C18_Witness ==
    \E c \in Skipped :
        /\ Len(History(c)) = 2
        /\ History(c)[1].op = "call"
        /\ History(c)[1].detail = [args |-> <<"3">>, kwargs |-> {}]
        /\ History(c)[2].op = "getitem"
        /\ History(c)[2].detail = "a"

\* ---------------------------------------------------------------- C19
\* C19: in every bubble that carries an error the error history is not
\* empty, its last record has the bubble's error object as exception, its
\* earlier records have none, and every history record past it has that same
\* error object and no result.
C19_FailedBubbleHistories ==
    \A b \in DOMAIN bubbles : bubbles[b]._error # NoExc =>
        LET eh == ErrorHistory(b)
            h == History(b)
        IN  /\ Len(eh) >= 1
            /\ eh[Len(eh)].exception = bubbles[b]._error
            /\ \A i \in 1 .. (Len(eh) - 1) : eh[i].exception = NoExc
            /\ \A i \in (Len(eh) + 1) .. Len(h) :
                  /\ h[i].exception = bubbles[b]._error
                  /\ h[i].result = None

\* A failed bubble whose history has a record past the error history, made by
\* a call.
C19_Witness ==
    \E c \in Skipped :
        /\ trace[c].api = "call"
        /\ Len(ErrorHistory(c)) = 1
        /\ Len(History(c)) = 2
        /\ History(c)[2].exception = bubbles[c]._error

\* ---------------------------------------------------------------- C20
\* C20: a bubble with no error and a non-empty history has as its value the
\* result of its last history record, which is what kpop returns; a bubble
\* with an error has the value None.
C20_ValueIsLastResult ==
    /\ \A b \in DOMAIN bubbles :
          /\ (bubbles[b]._error = NoExc /\ Len(History(b)) > 0) =>
                bubbles[b]._value = Last(History(b)).result
          /\ bubbles[b]._error # NoExc => bubbles[b]._value = None
    /\ (ret.api = "kpop" /\ bubbles[ret.self]._error = NoExc
            /\ Len(History(ret.self)) > 0) =>
          ret.value = Last(History(ret.self)).result

\* kpop gave "A", the result of the last of two successful steps, the first
\* of which had returned None.
C20_Witness ==
    /\ ret.api = "kpop"
    /\ ret.self \in Succeeded
    /\ Len(History(ret.self)) = 2
    /\ History(ret.self)[1].result = None
    /\ ret.value = "A"

====
